---- MODULE Spec2Model ----
(***************************************************************************)
(* A model of skills/safe-pilot-committing/parse_commit.py.                *)
(*                                                                         *)
(* Python strings are TLA+ strings; the character at position i of s is    *)
(* SubSeq(s, i, i).  An optional field of a decoded mapping (a key that    *)
(* may be missing or null) is a sequence of length 0 (missing / None) or 1 *)
(* (the string that is set, which may be the empty string).                *)
(***************************************************************************)
EXTENDS Integers, Sequences, FiniteSets, TLC

VARIABLES
    pc,              \* position of the run
    text,            \* the input text read by main (line 145-149)
    yaml_content,    \* the text handed to yaml.safe_load (line 42)
    recommendation,  \* the decoded value (line 43, line 152)
    commit,          \* the argument of format_commit_message
    message,         \* its result
    commands,        \* the result of generate_git_commands
    stdout,          \* lines printed on the standard output stream
    stderr,          \* lines printed on the diagnostic stream
    exit_code        \* the exit status of the process, -1 while it runs

vars == <<pc, text, yaml_content, recommendation, commit, message, commands,
          stdout, stderr, exit_code>>

-----------------------------------------------------------------------------
(* Bounds of the inputs.                                                   *)

MaxBodyLen == 3
MaxCommits == 2
MaxFiles == 2
MaxSubjectLen == 4
MaxPieces == 6

-----------------------------------------------------------------------------
(* Python built-ins used by the program.                                   *)

CharAt(s, i) == SubSeq(s, i, i)

\* p occurs in s at position i.
StartsAt(s, i, p) == i + Len(p) - 1 <= Len(s) /\ SubSeq(s, i, i + Len(p) - 1) = p

Min(S) == CHOOSE x \in S : \A y \in S : x <= y

\* The characters str.strip() removes (ASCII whitespace).
Whitespace == {" ", "\t", "\n", "\r", "\f"}

RECURSIVE LStrip(_)
LStrip(s) ==
    IF s # "" /\ CharAt(s, 1) \in Whitespace
    THEN LStrip(SubSeq(s, 2, Len(s)))
    ELSE s

RECURSIVE RStrip(_)
RStrip(s) ==
    IF s # "" /\ CharAt(s, Len(s)) \in Whitespace
    THEN RStrip(SubSeq(s, 1, Len(s) - 1))
    ELSE s

\* str.strip()
Strip(s) == RStrip(LStrip(s))

\* sep.join(parts)
RECURSIVE Join(_, _)
Join(sep, parts) ==
    IF parts = <<>> THEN ""
    ELSE IF Len(parts) = 1 THEN parts[1]
    ELSE parts[1] \o sep \o Join(sep, Tail(parts))

\* The truth value of commit.get(key): a missing key, None and "" are falsy.
Truthy(opt) == opt # <<>> /\ opt[1] # ""

-----------------------------------------------------------------------------
(* format_commit_message                                                   *)

\* MessageParts without the blank line of line 69.
MessageParts_NoExtraBlank(c) ==
    LET scope   == IF Truthy(c.scope) THEN "(" \o c.scope[1] \o ")" ELSE ""
        subject == c.type \o scope \o ": " \o c.subject
        p1 == <<subject>>
        p2 == IF Truthy(c.body)
              THEN p1 \o <<"", Strip(c.body[1])>>
              ELSE p1
    IN  IF Truthy(c.closes) THEN p2 \o <<"", c.closes[1]>> ELSE p2

\* MessageParts with the body's blank line of line 64 left out.
MessageParts_NoBodyBlank(c) ==
    LET scope   == IF Truthy(c.scope) THEN "(" \o c.scope[1] \o ")" ELSE ""
        subject == c.type \o scope \o ": " \o c.subject
        p1 == <<subject>>
        p2 == IF Truthy(c.body) THEN p1 \o <<Strip(c.body[1])>> ELSE p1
    IN  IF Truthy(c.closes)
        THEN (IF ~Truthy(c.body) THEN p2 \o <<"">> ELSE p2) \o <<"", c.closes[1]>>
        ELSE p2

\* The list `parts` at line 73.
MessageParts(c) ==
    LET scope   == IF Truthy(c.scope) THEN "(" \o c.scope[1] \o ")" ELSE ""
        subject == c.type \o scope \o ": " \o c.subject
        p1 == <<subject>>
        p2 == IF Truthy(c.body)
              THEN p1 \o <<"", Strip(c.body[1])>>
              ELSE p1
        p3 == IF Truthy(c.closes)
              THEN (IF ~Truthy(c.body) THEN p2 \o <<"">> ELSE p2)
                       \o <<"", c.closes[1]>>
              ELSE p2
    IN  p3

format_commit_message(c) == Join("\n", MessageParts(c))

-----------------------------------------------------------------------------
(* generate_git_commands                                                   *)

\* s.replace(old, new) for a non-empty old: every occurrence, scanning from
\* the left, occurrences not overlapping.
RECURSIVE Replace(_, _, _)
Replace(s, old, new) ==
    LET at == {k \in 1..Len(s) : StartsAt(s, k, old)} IN
    IF at = {} THEN s
    ELSE LET k == Min(at) IN
         SubSeq(s, 1, k - 1) \o new
             \o Replace(SubSeq(s, k + Len(old), Len(s)), old, new)

\* The generator expression of line 129.
QuoteFiles(files) == [i \in 1..Len(files) |-> "\"" \o files[i] \o "\""]

\* CommitCommands with line 135 left out: the message is not escaped.
CommitCommands_NoEscape(c) ==
    << "git add " \o Join(" ", QuoteFiles(c.files)),
       "git commit -m \"" \o format_commit_message(c) \o "\"",
       "" >>

\* One pass of the loop body, lines 128-137.
CommitCommands(c) ==
    << "git add " \o Join(" ", QuoteFiles(c.files)),
       "git commit -m \"" \o Replace(format_commit_message(c), "\"", "\\\"") \o "\"",
       "" >>

\* CommandsFor skipping the commits that name no file.
RECURSIVE CommandsFor_SkipEmpty(_)
CommandsFor_SkipEmpty(commits) ==
    IF commits = <<>> THEN <<>>
    ELSE IF Head(commits).files = <<>> THEN CommandsFor_SkipEmpty(Tail(commits))
    ELSE CommitCommands(Head(commits)) \o CommandsFor_SkipEmpty(Tail(commits))

\* The loop of lines 127-137.
RECURSIVE CommandsLoop(_)
CommandsLoop(commits) ==
    IF commits = <<>> THEN <<>>
    ELSE CommitCommands(Head(commits)) \o CommandsLoop(Tail(commits))

CommandsFor(commits) == CommandsLoop(commits)

\* generate_git_commands with the gate of line 122 testing for 'blocked'.
generate_git_commands_BlockedOnly(r) ==
    IF r.status = "blocked" THEN <<>> ELSE CommandsFor(r.commits)

generate_git_commands(r) ==
    IF r.status # "safe" THEN <<>> ELSE CommandsFor(r.commits)

-----------------------------------------------------------------------------
(* print_summary                                                           *)

BannerWidth == 60

\* s * n
RECURSIVE Repeat(_, _)
Repeat(s, n) ==
    IF n = 0 THEN ""
    ELSE LET half == Repeat(s, n \div 2)
         IN  half \o half \o (IF n % 2 = 1 THEN s ELSE "")

Digit(d) == CharAt("0123456789", d + 1)

\* str(n) for a non-negative integer.
RECURSIVE Str(_)
Str(n) == IF n < 10 THEN Digit(n) ELSE Str(n \div 10) \o Digit(n % 10)

UpperChar(ch) ==
    LET lower == "abcdefghijklmnopqrstuvwxyz"
        upper == "ABCDEFGHIJKLMNOPQRSTUVWXYZ"
        at    == {i \in 1..26 : CharAt(lower, i) = ch}
    IN  IF at = {} THEN ch ELSE CharAt(upper, CHOOSE i \in at : TRUE)

\* str.upper()
RECURSIVE Upper(_)
Upper(s) ==
    IF Len(s) <= 1 THEN UpperChar(s)
    ELSE LET h == Len(s) \div 2
         IN  Upper(SubSeq(s, 1, h)) \o Upper(SubSeq(s, h + 1, Len(s)))

\* Lines 78-85.
SummaryHeader(r) ==
    << Repeat("=", BannerWidth),
       "COMMIT RECOMMENDATION SUMMARY",
       Repeat("=", BannerWidth),
       "Status: " \o Upper(r.status),
       "Security Scan: " \o Upper(r.security_scan),
       "Issues Found: " \o Str(r.issues_found),
       "Commits Proposed: " \o Str(r.commits_proposed),
       "" >>

\* Lines 88-89.  The source's first line starts with the no-entry sign
\* U+26D4, written here as (X).
BlockedNotice ==
    << "(X) BLOCKED - Cannot proceed with commit",
       "Review the security issues in the agent output above." >>

\* Lines 97-109.  The source's warning sign U+26A0 U+FE0F is written (!).
CommitDetail(c) ==
    << "--- Commit " \o Str(c.id) \o " ---", "Type: " \o c.type >>
      \o (IF Truthy(c.scope) THEN << "Scope: " \o c.scope[1] >> ELSE <<>>)
      \o << "Subject: " \o c.subject,
            "Files (" \o Str(Len(c.files)) \o "):" >>
      \o [i \in 1..Len(c.files) |-> "  - " \o c.files[i]]
      \o (IF c.breaking THEN << "(!)  BREAKING CHANGE" >> ELSE <<>>)
      \o (IF Truthy(c.closes) THEN << "Closes: " \o c.closes[1] >> ELSE <<>>)
      \o << "" >>

\* The loop of lines 96-109.
RECURSIVE DetailLoop(_)
DetailLoop(commits) ==
    IF commits = <<>> THEN <<>>
    ELSE CommitDetail(Head(commits)) \o DetailLoop(Tail(commits))

\* SummaryTail without the early return of lines 87-90.
SummaryTail_NoBlockedReturn(r) ==
    IF r.status = "blocked" THEN BlockedNotice \o DetailLoop(r.commits)
    ELSE IF r.commits = <<>> THEN << "No commits proposed." >>
    ELSE DetailLoop(r.commits)

\* Lines 87-109.
SummaryTail(r) ==
    IF r.status = "blocked" THEN BlockedNotice
    ELSE IF r.commits = <<>> THEN << "No commits proposed." >>
    ELSE DetailLoop(r.commits)

\* Everything print_summary writes for a decoded mapping r.
print_summary(r) == SummaryHeader(r) \o SummaryTail(r)

-----------------------------------------------------------------------------
(* parse_commit_recommendation                                             *)

OpenMarker == "<COMMIT_RECOMMENDATION>"
CloseMarker == "</COMMIT_RECOMMENDATION>"

\* '.' under re.DOTALL (line 37): every character.
DotMatches(ch) == TRUE

\* The last place at or after j where the closing marker starts (0: none):
\* what a greedy '(.*)' would find.
GroupEnd_Greedy(s, j) ==
    LET at == {k \in j..Len(s) : StartsAt(s, k, CloseMarker)}
    IN  IF at = {} THEN 0 ELSE CHOOSE k \in at : \A m \in at : m <= k

\* The lazy group '(.*?)' followed by the closing marker, tried from j on:
\* the group takes as few characters as '.' allows before the closing
\* marker.  The place where the closing marker is matched, or 0 when the
\* match fails.
GroupEnd(s, j) ==
    LET at == {k \in j..Len(s) :
                  /\ StartsAt(s, k, CloseMarker)
                  /\ \A m \in j..(k - 1) : DotMatches(CharAt(s, m))}
    IN  IF at = {} THEN 0 ELSE Min(at)

\* re.search (lines 34-38): the match at the leftmost start that has one;
\* <<>> for no match, else <<group(1)>>.
RECURSIVE Search(_, _)
Search(s, i) ==
    LET opens == {k \in i..Len(s) : StartsAt(s, k, OpenMarker)} IN
    IF opens = {} THEN <<>>
    ELSE LET k == Min(opens)
             g == k + Len(OpenMarker)
         IN  IF GroupEnd(s, g) # 0
             THEN << SubSeq(s, g, GroupEnd(s, g) - 1) >>
             ELSE Search(s, k + 1)

\* The values yaml.safe_load can return to this program, by kind: None, a
\* mapping without keys, a scalar string, a mapping with the keys of a
\* recommendation (Mapping below).
None == [kind |-> "none"]
EmptyMapping == [kind |-> "map0"]
Scalar == [kind |-> "str", s |-> "y"]
DecodeError == [kind |-> "error"]

\* bool(value), as tested by `not recommendation` (line 154).
TruthyValue(v) == v.kind = "map" \/ (v.kind = "str" /\ v.s # "")

-----------------------------------------------------------------------------
(* Inputs of the formatter.                                                *)

RECURSIVE StringsUpTo(_, _)
StringsUpTo(alphabet, n) ==
    IF n = 0 THEN {""}
    ELSE LET r == StringsUpTo(alphabet, n - 1)
         IN  r \cup {s \o ch : s \in r, ch \in alphabet}

Opt(S) == {<<>>} \cup {<<s>> : s \in S}

FormatBodies == StringsUpTo({"a", " ", "\n"}, MaxBodyLen) \cup {"Fixes crash."}

FormatCommits ==
    [id : {1}, type : {"fix", "feat"}, scope : Opt({"", "api"}),
     subject : {"null check", "add login"}, body : Opt(FormatBodies),
     files : {<<"a.py">>}, breaking : {FALSE}, closes : Opt({"", "Closes #42"})]

NoCommit ==
    [id |-> 0, type |-> "", scope |-> <<>>, subject |-> "", body |-> <<>>,
     files |-> <<>>, breaking |-> FALSE, closes |-> <<>>]

InitFormat ==
    /\ pc = "format"
    /\ commit \in FormatCommits
    /\ message = ""
    /\ text = ""
    /\ yaml_content = <<>>
    /\ recommendation = None
    /\ commands = <<>>
    /\ stdout = <<>>
    /\ stderr = <<>>
    /\ exit_code = -1

FormatCommitMessage ==
    /\ pc = "format"
    /\ message' = format_commit_message(commit)
    /\ pc' = "formatted"
    /\ UNCHANGED <<text, yaml_content, recommendation, commit, commands,
                   stdout, stderr, exit_code>>

NextFormat == FormatCommitMessage

SpecFormat == InitFormat /\ [][NextFormat]_vars

HasScope == Truthy(commit.scope)
HasBody == Truthy(commit.body)
HasCloses == Truthy(commit.closes)

SubjectLine ==
    IF HasScope
    THEN commit.type \o "(" \o commit.scope[1] \o "): " \o commit.subject
    ELSE commit.type \o ": " \o commit.subject

\* t is s without its leading and trailing whitespace.
IsStripped(t, s) ==
    /\ \E i \in 0..Len(s), j \in 0..Len(s) :
          /\ i + Len(t) + j = Len(s)
          /\ SubSeq(s, i + 1, i + Len(t)) = t
          /\ \A k \in 1..i : CharAt(s, k) \in Whitespace
          /\ \A k \in (Len(s) - j + 1)..Len(s) : CharAt(s, k) \in Whitespace
    /\ t # "" => CharAt(t, 1) \notin Whitespace /\ CharAt(t, Len(t)) \notin Whitespace

BodyText == IF commit.body = <<>> THEN "" ELSE commit.body[1]

\* The message laid out around the body text b: the subject line; a blank
\* line and b when a body is present; then, when closes is present, one
\* blank line after the body, or two blank lines after the subject line.
Layout(b) ==
    SubjectLine
        \o (IF HasBody THEN "\n\n" \o b ELSE "")
        \o (IF HasCloses
            THEN (IF HasBody THEN "\n\n" ELSE "\n\n\n") \o commit.closes[1]
            ELSE "")

Substrings(s) == {SubSeq(s, i, j) : i \in 1..(Len(s) + 1), j \in 0..Len(s)}

\* C4 (amended): for every combination of present (set and non-empty) and
\* absent scope, body and closes, the message is the subject line, then one
\* blank line and the body stripped of its leading and trailing whitespace
\* when a body is present, then closes after one blank line when a body
\* precedes it and after two blank lines when there is none.
C4_MessageLayout ==
    pc = "formatted" =>
        \E t \in Substrings(BodyText) :
            IsStripped(t, BodyText) /\ message = Layout(t)

\* C4 as stated: the blank line is followed by the body itself.
C4_AsStated == pc = "formatted" => message = Layout(BodyText)

C4_Witness ==
    /\ pc = "formatted"
    /\ HasScope /\ HasBody /\ HasCloses
    /\ BodyText = " a\n"
    /\ message = "fix(api): null check\n\na\n\nCloses #42"

IsExample ==
    /\ commit.type = "fix" /\ commit.subject = "null check"
    /\ commit.scope = <<>> /\ commit.body = <<>>
    /\ commit.closes = <<"Closes #42">>

\* C5 (amended): with no scope, no body and a closes footer the message is
\* the subject line, two blank lines (three newline characters), the footer;
\* the example gives "fix: null check\n\n\nCloses #42".
C5_FooterAfterTwoBlankLines ==
    /\ (pc = "formatted" /\ ~HasScope /\ ~HasBody /\ HasCloses) =>
           message = commit.type \o ": " \o commit.subject
                         \o "\n\n\n" \o commit.closes[1]
    /\ (pc = "formatted" /\ IsExample) =>
           message = "fix: null check\n\n\nCloses #42"

\* C5 as stated: subject line and footer are two newline characters apart.
C5_AsStated ==
    (pc = "formatted" /\ IsExample) => message = "fix: null check\n\nCloses #42"

C5_Witness ==
    pc = "formatted" /\ IsExample /\ Len(message) = Len("fix: null check") + 3 + Len("Closes #42")

-----------------------------------------------------------------------------
(* The two transformations of a decoded recommendation.                    *)

RECURSIVE SeqsUpTo(_, _)
SeqsUpTo(S, n) ==
    IF n = 0 THEN {<<>>}
    ELSE LET r == SeqsUpTo(S, n - 1)
         IN  r \cup {Append(q, x) : q \in r, x \in S}

FilePaths == {"a.py", "b c.py"}

RecordCommits ==
    {[id |-> 1, type |-> "fix", scope |-> <<>>, subject |-> "null check",
      body |-> <<>>, files |-> f, breaking |-> FALSE, closes |-> <<>>]
        : f \in SeqsUpTo(FilePaths, MaxFiles)}
    \cup
    {[id |-> 2, type |-> "feat", scope |-> <<"api">>, subject |-> "say \"hi\" \"x\"",
      body |-> <<"Why.">>, files |-> f, breaking |-> TRUE, closes |-> <<"Closes #42">>]
        : f \in SeqsUpTo(FilePaths, MaxFiles)}

Statuses == {"safe", "blocked", "review"}

Mapping(status, commits) ==
    [kind |-> "map", status |-> status,
     security_scan |-> IF status = "safe" THEN "passed" ELSE "failed",
     issues_found |-> IF status = "safe" THEN 0 ELSE 12,
     commits_proposed |-> Len(commits), commits |-> commits]

Records ==
    {Mapping(st, cs) : st \in Statuses, cs \in SeqsUpTo(RecordCommits, MaxCommits)}

InitRecord ==
    /\ pc = "record"
    /\ recommendation \in Records
    /\ commit = NoCommit
    /\ message = ""
    /\ text = ""
    /\ yaml_content = <<>>
    /\ commands = <<>>
    /\ stdout = <<>>
    /\ stderr = <<>>
    /\ exit_code = -1

GenerateGitCommands ==
    /\ pc = "record"
    /\ commands' = generate_git_commands(recommendation)
    /\ pc' = "generated"
    /\ UNCHANGED <<text, yaml_content, recommendation, commit, message,
                   stdout, stderr, exit_code>>

PrintSummary ==
    /\ pc = "record"
    /\ stdout' = stdout \o print_summary(recommendation)
    /\ pc' = "summarised"
    /\ UNCHANGED <<text, yaml_content, recommendation, commit, message,
                   commands, stderr, exit_code>>

NextRecord == GenerateGitCommands \/ PrintSummary

SpecRecord == InitRecord /\ [][NextRecord]_vars

\* C1: a recommendation whose status is not 'safe' yields the empty
\* sequence of commands, whatever its commits.
C1_NoCommandsUnlessSafe ==
    (pc = "generated" /\ recommendation.status # "safe") => commands = <<>>

C1_Witness ==
    /\ pc = "generated"
    /\ recommendation.status = "review"
    /\ Len(recommendation.commits) = MaxCommits
    /\ commands = <<>>

\* The staging command the claim describes: 'git add', then each file in
\* double quotes, the files in order and one space apart.
RECURSIVE QuotedFrom(_, _)
QuotedFrom(files, i) ==
    IF i > Len(files) THEN ""
    ELSE (IF i > 1 THEN " " ELSE "") \o "\"" \o files[i] \o "\"" \o QuotedFrom(files, i + 1)

\* s with a backslash put before every double quote.
RECURSIVE Escaped(_)
Escaped(s) ==
    IF s = "\"" THEN "\\\""
    ELSE IF Len(s) <= 1 THEN s
    ELSE LET h == Len(s) \div 2
         IN  Escaped(SubSeq(s, 1, h)) \o Escaped(SubSeq(s, h + 1, Len(s)))

\* C2: for status 'safe' the result holds, for the k-th commit, at places
\* 3k-2, 3k-1 and 3k: the staging command, the commit command carrying the
\* escaped format_commit_message, and the empty separator; nothing else.
C2_ThreeCommandsPerCommitInOrder ==
    (pc = "generated" /\ recommendation.status = "safe") =>
        /\ Len(commands) = 3 * Len(recommendation.commits)
        /\ \A k \in 1..Len(recommendation.commits) :
              LET c == recommendation.commits[k] IN
              /\ commands[3 * k - 2] = "git add " \o QuotedFrom(c.files, 1)
              /\ commands[3 * k - 1] =
                     "git commit -m \"" \o Escaped(format_commit_message(c)) \o "\""
              /\ commands[3 * k] = ""

C2_Witness ==
    /\ pc = "generated"
    /\ recommendation.status = "safe"
    /\ Len(recommendation.commits) = 2
    /\ recommendation.commits[1].id = 2 /\ recommendation.commits[2].id = 1
    /\ commands[1] = "git add \"b c.py\" \"a.py\""
    /\ commands[2] = "git commit -m \"feat(api): say \\\"hi\\\" \\\"x\\\"\n\nWhy.\n\nCloses #42\""
    /\ commands[5] = "git commit -m \"fix: null check\""

\* C10: for status 'safe' and n commits the result has 3*n strings, and a
\* commit without files still yields the bare 'git add ' and its commit
\* command.
C10_EmptyFilesStillThreeCommands ==
    (pc = "generated" /\ recommendation.status = "safe") =>
        /\ Len(commands) = 3 * Len(recommendation.commits)
        /\ \A k \in 1..Len(recommendation.commits) :
              recommendation.commits[k].files = <<>> =>
                  /\ 3 * k <= Len(commands)
                  /\ commands[3 * k - 2] = "git add "
                  /\ SubSeq(commands[3 * k - 1], 1, 15) = "git commit -m \""

C10_Witness ==
    /\ pc = "generated"
    /\ recommendation.status = "safe"
    /\ Len(recommendation.commits) = 2
    /\ recommendation.commits[1].files = <<>>
    /\ recommendation.commits[2].files # <<>>
    /\ Len(commands) = 6
    /\ commands[1] = "git add "

StartsWith(s, p) == StartsAt(s, 1, p)

IsCommitOrFileLine(l) == StartsWith(l, "--- Commit ") \/ StartsWith(l, "  - ")

IsDetailLine(l) ==
    \/ IsCommitOrFileLine(l)
    \/ StartsWith(l, "Subject: ")
    \/ StartsWith(l, "Type: ")
    \/ StartsWith(l, "Files (")

\* For each commit in order: its id line, then one line per file in order.
RECURSIVE IdAndFileLines(_)
IdAndFileLines(commits) ==
    IF commits = <<>> THEN <<>>
    ELSE LET c == Head(commits) IN
         << "--- Commit " \o Str(c.id) \o " ---" >>
            \o [i \in 1..Len(c.files) |-> "  - " \o c.files[i]]
            \o IdAndFileLines(Tail(commits))

HeaderLines == 8

\* C8: after the eight header lines print_summary writes exactly one tail:
\* for status 'blocked' the two lines of the blocking notice and no commit
\* id, subject or file line; otherwise 'No commits proposed.' when commits
\* is empty; otherwise one detail block per commit in order, each listing
\* the commit's files in order.
C8_ExactlyOneSummaryTail ==
    pc = "summarised" =>
        LET r == recommendation
            rest == SubSeq(stdout, HeaderLines + 1, Len(stdout))
        IN  /\ Len(stdout) > HeaderLines
            /\ stdout[2] = "COMMIT RECOMMENDATION SUMMARY"
            /\ stdout[4] = "Status: " \o Upper(r.status)
            /\ r.status = "blocked" =>
                  /\ rest = << "(X) BLOCKED - Cannot proceed with commit",
                               "Review the security issues in the agent output above." >>
                  /\ \A i \in 1..Len(stdout) : ~IsDetailLine(stdout[i])
            /\ (r.status # "blocked" /\ r.commits = <<>>) =>
                  rest = << "No commits proposed." >>
            /\ (r.status # "blocked" /\ r.commits # <<>>) =>
                  /\ SelectSeq(rest, IsCommitOrFileLine) = IdAndFileLines(r.commits)
                  /\ \A i \in 1..Len(rest) :
                        /\ rest[i] # "No commits proposed."
                        /\ ~StartsWith(rest[i], "(X) BLOCKED")
                  /\ Len(SelectSeq(rest, LAMBDA l : StartsWith(l, "Subject: ")))
                         = Len(r.commits)

C8_Witness ==
    /\ pc = "summarised"
    /\ recommendation.status = "blocked"
    /\ Len(recommendation.commits) = 2
    /\ recommendation.commits[1].files = <<"a.py", "b c.py">>
    /\ Len(stdout) = HeaderLines + 2
    /\ stdout[4] = "Status: BLOCKED"

-----------------------------------------------------------------------------
(* The commit command under the shell's double-quote rules.                *)

ShellSubjects == StringsUpTo({"a", "\"", "\\"}, MaxSubjectLen)

InitShell ==
    /\ pc = "record"
    /\ \E subj \in ShellSubjects :
          recommendation =
              Mapping("safe",
                      << [id |-> 1, type |-> "fix", scope |-> <<>>, subject |-> subj,
                          body |-> <<>>, files |-> <<"a.py">>, breaking |-> FALSE,
                          closes |-> <<>>] >>)
    /\ commit = NoCommit
    /\ message = ""
    /\ text = ""
    /\ yaml_content = <<>>
    /\ commands = <<>>
    /\ stdout = <<>>
    /\ stderr = <<>>
    /\ exit_code = -1

NextShell == GenerateGitCommands

SpecShell == InitShell /\ [][NextShell]_vars

\* Scanning s from i inside a double-quoted shell word: a backslash takes
\* the next character with it; the first double quote met closes the word.
\* The place of that quote, or 0 when the word is never closed.
RECURSIVE ClosingQuote(_, _)
ClosingQuote(s, i) ==
    IF i > Len(s) THEN 0
    ELSE IF CharAt(s, i) = "\\" THEN ClosingQuote(s, i + 2)
    ELSE IF CharAt(s, i) = "\"" THEN i
    ELSE ClosingQuote(s, i + 1)

CommitCommandPrefix == "git commit -m \""

\* C3: in every commit command the argument opened after '-m ' is closed
\* by the last character of the command, not earlier and not never.
C3_CommitCommandQuotedToTheEnd ==
    pc = "generated" =>
        \A k \in 1..Len(recommendation.commits) :
            LET cmd == commands[3 * k - 1] IN
            /\ StartsWith(cmd, CommitCommandPrefix)
            /\ ClosingQuote(cmd, Len(CommitCommandPrefix) + 1) = Len(cmd)

-----------------------------------------------------------------------------
(* main                                                                    *)

\* The mappings the decoder is taken to return: each status with no
\* commit, with one commit and with two.
MainCommitLists ==
    LET one == CHOOSE c \in RecordCommits : c.id = 1 /\ c.files = <<"a.py">>
        two == CHOOSE c \in RecordCommits : c.id = 2 /\ c.files = <<"a.py", "b c.py">>
    IN  {<<>>, <<one>>, <<two, one>>}

MainRecords == {Mapping(st, cs) : st \in Statuses, cs \in MainCommitLists}

\* yaml.safe_load (line 43), a library outside this program.  The empty
\* text decodes to None.  Of any other text the model keeps only where its
\* markers and its whitespace are, so its decoding is an input of the step:
\* an error raised, or any of the values above.
SafeLoad(content) ==
    IF content = "" THEN {None}
    ELSE {None, EmptyMapping, Scalar, DecodeError} \cup MainRecords

\* parse_commit_recommendation (lines 34-43): the text handed to the decoder
\* (<<>> when no block is found and nothing is decoded) and what is returned
\* or raised.
parse_commit_recommendation(t) ==
    LET match == Search(t, 1) IN
    IF match = <<>>
    THEN {[content |-> <<>>, value |-> None]}
    ELSE LET content == Strip(match[1]) IN
         {[content |-> <<content>>, value |-> v] : v \in SafeLoad(content)}

\* The input texts: pieces of narrative, whitespace and markers.
Pieces == {OpenMarker, CloseMarker, "\n", "y"}

Texts == StringsUpTo(Pieces, MaxPieces)

Traceback == "Traceback (most recent call last):"

NotFoundError == "ERROR: No COMMIT_RECOMMENDATION block found in input"

Init ==
    /\ pc = "main"
    /\ text \in Texts
    /\ yaml_content = <<>>
    /\ recommendation = None
    /\ commit = NoCommit
    /\ message = ""
    /\ commands = <<>>
    /\ stdout = <<>>
    /\ stderr = <<>>
    /\ exit_code = -1

\* Lines 145-152; an exception of the decoder is not caught and ends the run.
Main_Parse ==
    /\ pc = "main"
    /\ \E o \in parse_commit_recommendation(text) :
          /\ yaml_content' = o.content
          /\ IF o.value.kind = "error"
             THEN /\ recommendation' = None
                  /\ stderr' = Append(stderr, Traceback)
                  /\ exit_code' = 1
                  /\ pc' = "exited"
             ELSE /\ recommendation' = o.value
                  /\ pc' = "parsed"
                  /\ UNCHANGED <<stderr, exit_code>>
    /\ UNCHANGED <<text, commit, message, commands, stdout>>

\* The test of line 154.
NoRecommendation(v) == ~TruthyValue(v)

\* Lines 154-156.
Main_NotFound ==
    /\ pc = "parsed"
    /\ NoRecommendation(recommendation)
    /\ stderr' = Append(stderr, NotFoundError)
    /\ exit_code' = 1
    /\ pc' = "exited"
    /\ UNCHANGED <<text, yaml_content, recommendation, commit, message,
                   commands, stdout>>

\* Line 159.  A scalar has no key 'status': line 81 raises after the three
\* lines 78-80 are written, and the run ends.
Main_Summary ==
    /\ pc = "parsed"
    /\ ~NoRecommendation(recommendation)
    /\ IF recommendation.kind = "map"
       THEN /\ stdout' = stdout \o print_summary(recommendation)
            /\ pc' = "summarised"
            /\ UNCHANGED <<stderr, exit_code>>
       ELSE /\ stdout' = stdout \o << Repeat("=", BannerWidth),
                                      "COMMIT RECOMMENDATION SUMMARY",
                                      Repeat("=", BannerWidth) >>
            /\ stderr' = Append(stderr, Traceback)
            /\ exit_code' = 1
            /\ pc' = "exited"
    /\ UNCHANGED <<text, yaml_content, recommendation, commit, message, commands>>

\* The test of line 162 letting every status but 'blocked' through.
ShowsCommands_NotBlocked(r) == r.status # "blocked"

\* The test of line 162.
ShowsCommands(r) == r.status = "safe"

NonEmpty(cmd) == cmd # ""

\* Lines 163-172.  The warning sign U+26A0 U+FE0F is written (!).
CommandsSection(cmds) ==
    << Repeat("=", BannerWidth), "GIT COMMANDS TO EXECUTE", Repeat("=", BannerWidth) >>
      \o SelectSeq(cmds, NonEmpty)
      \o << "",
            "(!)  Review these commands before executing!",
            "(!)  Ensure you have user approval before running." >>

\* Lines 162-172, then the end of the script.
Main_Commands ==
    /\ pc = "summarised"
    /\ ShowsCommands(recommendation)
    /\ commands' = generate_git_commands(recommendation)
    /\ stdout' = stdout \o CommandsSection(commands')
    /\ exit_code' = 0
    /\ pc' = "exited"
    /\ UNCHANGED <<text, yaml_content, recommendation, commit, message, stderr>>

\* Line 162 false: the script ends.
Main_Finish ==
    /\ pc = "summarised"
    /\ ~ShowsCommands(recommendation)
    /\ exit_code' = 0
    /\ pc' = "exited"
    /\ UNCHANGED <<text, yaml_content, recommendation, commit, message,
                   commands, stdout, stderr>>

Next ==
    \/ Main_Parse
    \/ Main_NotFound
    \/ Main_Summary
    \/ Main_Commands
    \/ Main_Finish

Spec == Init /\ [][Next]_vars

OpensAt(t) == {i \in 1..Len(t) : StartsAt(t, i, OpenMarker)}

ClosesAfter(t, i) ==
    {j \in (i + Len(OpenMarker))..Len(t) : StartsAt(t, j, CloseMarker)}

\* The text holds an opening marker with a closing marker after it.
BlockPresent(t) == \E i \in OpensAt(t) : ClosesAfter(t, i) # {}

\* The text between the first opening marker and the first closing marker
\* that follows it.
Region(t) ==
    LET i == Min(OpensAt(t))
        j == Min(ClosesAfter(t, i))
    IN  SubSeq(t, i + Len(OpenMarker), j - 1)

\* C6: when the text holds a region, what is decoded is the text between
\* the first opening marker and the first closing marker after it, without
\* its leading and trailing whitespace, whatever stands before the opening
\* marker and after the closing marker; when it holds none, nothing is
\* decoded and the result is None.
C6_DecodesFirstRegionTrimmed ==
    pc # "main" =>
        IF BlockPresent(text)
        THEN /\ Len(yaml_content) = 1
             /\ IsStripped(yaml_content[1], Region(text))
        ELSE /\ yaml_content = <<>>
             /\ recommendation = None
             /\ pc \in {"parsed", "exited"}

C6_Witness ==
    /\ pc = "parsed"
    /\ text = CloseMarker \o OpenMarker \o "\ny" \o CloseMarker \o CloseMarker
    /\ yaml_content = << "y" >>
    /\ recommendation \in MainRecords

NotFoundReported == exit_code = 1 /\ stderr = << NotFoundError >>

\* C7: the run ends with status 1 and the 'no block found' error line
\* when, and only when, the input holds no recommendation block; with a
\* block decoded to a full mapping it ends with status 0.
C7_NotFoundOnlyWithoutBlock ==
    pc = "exited" =>
        /\ NotFoundReported <=> ~BlockPresent(text)
        /\ recommendation.kind = "map" => exit_code = 0

PlacesOf(line) == {i \in 1..Len(stdout) : stdout[i] = line}

IsGitLine(l) == StartsWith(l, "git ")

IsSummaryLine(l) ==
    \/ IsDetailLine(l)
    \/ l \in {"COMMIT RECOMMENDATION SUMMARY", "No commits proposed."}
    \/ StartsWith(l, "Status: ")
    \/ StartsWith(l, "(X) BLOCKED")

\* C9: in a run that ends with status 0 the summary comes first; the
\* commands section is there exactly when status is 'safe', after every
\* line of the summary, holding every git command line, and closed by the
\* two warning lines; for another status no section and no git command
\* line is written; a run that decoded a full mapping ends with status 0.
C9_CommandsSectionOnlyWhenSafe ==
    /\ (pc = "exited" /\ recommendation.kind = "map") => exit_code = 0
    /\ (pc = "exited" /\ exit_code = 0) =>
          LET r == recommendation
              section == PlacesOf("GIT COMMANDS TO EXECUTE")
              n == Len(stdout)
          IN  /\ n >= HeaderLines + 1
              /\ stdout[2] = "COMMIT RECOMMENDATION SUMMARY"
              /\ stdout[4] = "Status: " \o Upper(r.status)
              /\ (r.status = "safe") <=> (section # {})
              /\ r.status # "safe" =>
                    /\ \A i \in 1..n : ~IsGitLine(stdout[i])
                    /\ commands = <<>>
              /\ r.status = "safe" =>
                    /\ Cardinality(section) = 1
                    /\ \A k \in section :
                          /\ k > HeaderLines + 1
                          /\ \A i \in 1..n : IsSummaryLine(stdout[i]) => i < k
                          /\ \A i \in 1..n : IsGitLine(stdout[i]) => (k + 1 < i /\ i < n - 2)
                          /\ Len(SelectSeq(stdout, IsGitLine)) = 2 * Len(r.commits)
                    /\ stdout[n - 1] = "(!)  Review these commands before executing!"
                    /\ stdout[n] = "(!)  Ensure you have user approval before running."

C9_Witness ==
    /\ pc = "exited"
    /\ exit_code = 0
    /\ text = "y\n" \o OpenMarker \o "y" \o CloseMarker \o "y"
    /\ recommendation.status = "safe"
    /\ Len(recommendation.commits) = 2
    /\ stdout[Len(stdout) - 3] = "git commit -m \"fix: null check\""
    /\ stdout[Len(stdout)] = "(!)  Ensure you have user approval before running."

====
